---- MODULE Spec2Model ----
(***************************************************************************)
(* Drone wind analysis: the forecast page (pages/Index.tsx), the station   *)
(* reconciliation hook (hooks/useStationData.ts) and the pure merge and    *)
(* gust-estimation routines of utils/weatherApi.ts.                        *)
(*                                                                         *)
(* Speeds and gusts are integers in units of 0.1 m/s.  A timestamp is the  *)
(* record of the local calendar fields a Date answers for getFullYear,     *)
(* getMonth, getDate, getHours and getMinutes.                             *)
(***************************************************************************)
EXTENDS Integers, Sequences, FiniteSets, Bags, TLC

VARIABLES
  \* ---- pages/Index.tsx: DroneWindAnalysis
  mounted,        \* the component has rendered and its effects have run
  location,       \* useState location (latitude/longitude pair, abstracted to an id)
  useEstimation,  \* useState useEstimation
  useMockData,    \* useState useMockData
  windData,       \* useState windData
  loading,        \* useState loading
  error,          \* useState error
  fetches,        \* how many calls of fetchWindData await fetchNWSForecast, by whether
                  \* they were started in the current refresh cycle or an earlier one
  firedIntervals, \* which of the page's refresh intervals fired in this period
  fetchesStarted, \* forecast fetches started for the current (location, refresh cycle)
  reconsStarted,  \* reconciliations started for the current (location, refresh cycle)
  events,         \* number of mount/user/timer events so far
  \* ---- hooks/useStationData.ts: useStationData
  enhancedData,   \* useState enhancedData
  nearestStation, \* useState nearestStation
  stLoading,      \* useState loading of the hook
  stError,        \* useState error of the hook
  hookStep,       \* what the hook did in the latest step that involved it
  runs,           \* the fetchStationData invocations in flight (a bag of closures)
  lastDone,       \* the fetchStationData invocation that finished in the latest step
  \* ---- utils/weatherApi.ts: direct application of the pure functions
  pForecast,      \* forecastData argument
  pObservations,  \* observationData argument
  pMerged,        \* mergeWindDataWithObservations(pForecast, pObservations)
  pMergedTwice,   \* mergeWindDataWithObservations(pMerged, pObservations)
  pEstimated,     \* estimateWindGusts(pForecast)
  pStage,         \* how many of the applications have been made
  \* ---- WindParticlesCanvas (unnamed/part_000)
  canvasMounted,  \* the component is mounted (canvasRef.current is the canvas)
  map,            \* prop map: the map or null
  canvasEnabled,  \* prop enabled
  points,         \* prop points
  height,         \* prop height
  bounds,         \* what map.getBounds() answers
  zoom,           \* what map.getZoom() answers
  particles,      \* particlesRef.current
  frames,         \* the animation frames requested and neither run nor cancelled:
                  \* the step closure of each, and whether rafRef.current is its id
  listeners,      \* the step closure registered for 'move' and 'zoom' (with
                  \* handleResize for 'resize'), or NoListener
  canvasStep,     \* what the latest step did to the particles
  canvasEvents,   \* number of prop changes and map events so far
  \* ---- components/SafetyIndicator.tsx: one render
  sWindData,      \* prop windData
  sNow,           \* new Date() of the render
  relevantData,   \* const relevantData
  safetyByHeight, \* const safetyByHeight
  isOverallSafe,  \* const isOverallSafe
  sRendered,      \* the render has happened
  \* ---- utils/windCalculations.ts (unnamed/part_007): one call of each function
  qWindSpeed,       \* argument windSpeed of isSafeForDrones
  qGustSpeed,       \* argument gustSpeed of isSafeForDrones, or Undefined
  qSafe,            \* what isSafeForDrones returned
  qJudged,          \* isSafeForDrones has been called
  qReferenceSpeed,  \* argument referenceSpeed of estimateWindAtHeight
  qReferenceHeight, \* argument referenceHeight
  qTargetHeight,    \* argument targetHeight
  qEstimate,        \* how the call of estimateWindAtHeight ended
  qEstimated,       \* estimateWindAtHeight has been called
  \* ---- sampleVector of WindParticlesCanvas (unnamed/part_000): one field sampled
  \* at one place, and sampled again with one reading of the field changed
  vPoints,          \* prop points
  vHeight,          \* prop height
  vLng,             \* argument lng
  vLat,             \* argument lat
  vResult,          \* what sampleVector returned
  vChanged,         \* points with the reading of one sample changed
  vResultChanged,   \* what sampleVector returned for vChanged
  vStage            \* "input", "sampled" or "resampled"

hookVars == <<enhancedData, nearestStation, stLoading, stError, hookStep, runs,
              lastDone>>
pureVars == <<pForecast, pObservations, pMerged, pMergedTwice, pEstimated, pStage>>
canvasVars == <<canvasMounted, map, canvasEnabled, points, height, bounds, zoom, particles,
                frames, listeners, canvasStep, canvasEvents>>
safetyVars == <<sWindData, sNow, relevantData, safetyByHeight, isOverallSafe, sRendered>>
calcVars == <<qWindSpeed, qGustSpeed, qSafe, qJudged, qReferenceSpeed, qReferenceHeight,
              qTargetHeight, qEstimate, qEstimated>>
fieldVars == <<vPoints, vHeight, vLng, vLat, vResult, vChanged, vResultChanged, vStage>>
vars == <<mounted, location, useEstimation, useMockData, windData, loading, error,
          fetches, firedIntervals, fetchesStarted, reconsStarted, events,
          hookVars, pureVars, canvasVars, safetyVars, calcVars, fieldVars>>

----------------------------------------------------------------------------
\* Bounds of the model

MaxEvents == 2
MaxRuns == 2
MaxForecastLen == 2
MaxObsLen == 2

----------------------------------------------------------------------------
\* Values

\* windGust?: number -- the absent gust of a WindData
Undefined == -1
\* windGust: { value: number | null } -- the null gust of an observation
Null == -2

NoError == "null"
SomeError == "Error"
NoStation == [id |-> "null", name |-> "null"]
NoSeries == <<>>

T(d, h, m) == [year |-> 2024, month |-> 2, date |-> d, hours |-> h, minutes |-> m]

\* the factor of the gust estimate, 1.4, in tenths
GustFactorTenths == 14

----------------------------------------------------------------------------
\* utils/weatherApi.ts

isDaylight(date) == date.hours >= 6 /\ date.hours <= 20

filterDaylightHours(data) == SelectSeq(data, LAMBDA d : isDaylight(d.timestamp))

\* `${getFullYear()}-${getMonth()}-${getDate()}-${getHours()}`
HourKey(timestamp) == <<timestamp.year, timestamp.month, timestamp.date, timestamp.hours>>

\* variant: an hour that has a gust in the map keeps it
RECURSIVE ObservationMapKeepsFirst(_, _)
ObservationMapKeepsFirst(observationData, n) ==
  IF n = 0 THEN [k \in {} |-> 0]
  ELSE LET m == ObservationMapKeepsFirst(observationData, n - 1)
           obs == observationData[n]
           hourKey == HourKey(obs.timestamp)
       IN IF obs.windGust # Null /\ hourKey \notin DOMAIN m
          THEN [k \in (DOMAIN m) \cup {hourKey} |->
                  IF k = hourKey THEN obs.windGust ELSE m[k]]
          ELSE m

\* observationMap after the forEach over observationData[1..n]
RECURSIVE ObservationMap(_, _)
ObservationMap(observationData, n) ==
  IF n = 0 THEN [k \in {} |-> 0]
  ELSE LET m == ObservationMap(observationData, n - 1)
           obs == observationData[n]
           hourKey == HourKey(obs.timestamp)
       IN IF obs.windGust # Null
          THEN [k \in (DOMAIN m) \cup {hourKey} |->
                  IF k = hourKey THEN obs.windGust ELSE m[k]]
          ELSE m

\* variant: the map is read without asking has(hourKey) first, so a sample
\* without an observation gets the undefined gust of Map.get
MergeSampleNoHasCheck(data, observationMap) ==
  LET hourKey == HourKey(data.timestamp)
  IN [data EXCEPT !.windGust = IF hourKey \in DOMAIN observationMap
                               THEN observationMap[hourKey] ELSE Undefined]

\* variant: a gust the sample already has is averaged with the observed one
MergeSampleBlend(data, observationMap) ==
  LET hourKey == HourKey(data.timestamp)
  IN IF hourKey \in DOMAIN observationMap
     THEN [data EXCEPT !.windGust = IF @ = Undefined THEN observationMap[hourKey]
                                    ELSE (@ + observationMap[hourKey]) \div 2]
     ELSE data

\* the callback of forecastData.map in mergeWindDataWithObservations
MergeSample(data, observationMap) ==
  LET hourKey == HourKey(data.timestamp)
  IN IF hourKey \in DOMAIN observationMap
     THEN [data EXCEPT !.windGust = observationMap[hourKey]]
     ELSE data

\* variant: the samples without an observed gust are filtered out before the
\* map, so the merged series keeps only the samples of the observed hours
mergeWindDataWithObservationsFilter(forecastData, observationData) ==
  IF Len(observationData) = 0 THEN forecastData
  ELSE LET observationMap == ObservationMap(observationData, Len(observationData))
           kept == SelectSeq(forecastData,
                             LAMBDA d : HourKey(d.timestamp) \in DOMAIN observationMap)
       IN [i \in 1..Len(kept) |-> MergeSample(kept[i], observationMap)]

mergeWindDataWithObservations(forecastData, observationData) ==
  IF Len(observationData) = 0 THEN forecastData
  ELSE LET observationMap == ObservationMap(observationData, Len(observationData))
       IN [i \in 1..Len(forecastData) |-> MergeSample(forecastData[i], observationMap)]

\* data.windSpeed * 1.4
EstimatedGust(windSpeed) == (windSpeed * GustFactorTenths) \div 10

\* variant: the test is !data.windGust, which also takes a gust of 0 for absent
EstimateSampleFalsy(data) ==
  IF data.windGust = Undefined \/ data.windGust = 0
  THEN [data EXCEPT !.windGust = EstimatedGust(data.windSpeed)]
  ELSE data

\* the callback of windData.map in estimateWindGusts
EstimateSample(data) ==
  IF data.windGust = Undefined
  THEN [data EXCEPT !.windGust = EstimatedGust(data.windSpeed)]
  ELSE data

estimateWindGusts(data) == [i \in 1..Len(data) |-> EstimateSample(data[i])]

----------------------------------------------------------------------------
\* Inputs: what the outside world can answer

DefaultLocation == 1
Locations == {1, 2}

\* a WindData with the direction fixed; isDaytime as fetchNWSForecast sets it
W(ts, speed, gust) ==
  [timestamp |-> ts, windSpeed |-> speed, windDirection |-> 90,
   windGust |-> gust, isDaytime |-> isDaylight(ts)]

\* a station observation: properties.timestamp and properties.windGust.value
O(ts, gust) == [timestamp |-> ts, windGust |-> gust]

\* answers of fetchNWSForecast: hourly periods, windGust always undefined
NWSForecasts ==
  { << W(T(1, 5, 0), 30, Undefined), W(T(1, 10, 0), 50, Undefined),
       W(T(1, 11, 0), 80, Undefined) >>,
    << W(T(1, 10, 0), 0, Undefined), W(T(1, 12, 0), 100, Undefined) >> }

\* results of generateMockWindData: every sample carries a gust
MockSeries ==
  { << W(T(1, 10, 0), 60, 80), W(T(1, 11, 0), 90, 130), W(T(1, 23, 0), 50, 70) >> }

\* answers of fetchNearbyStations: station identifiers, nearest first
StationAnswers == { <<>>, <<"KAAA", "KBBB">> }

\* answers of fetchStationObservations
ObservationAnswers ==
  { <<>>,
    << O(T(1, 10, 5), 70), O(T(1, 11, 15), Null), O(T(1, 12, 5), 130),
       O(T(1, 10, 45), 75) >> }

StationName(id) == IF id = "KAAA" THEN "Alpha Field" ELSE "Bravo Field"

----------------------------------------------------------------------------
\* hooks/useStationData.ts

NoToast == [title |-> "none", variant |-> "none"]
EstimatedToast == [title |-> "Using estimated gust data", variant |-> "default"]
EstimatedWarningToast == [title |-> "Using estimated gust data", variant |-> "warning"]
GustAddedToast == [title |-> "Wind gust data added", variant |-> "default"]

\* the hook's state as a record, so that one handler can run the effect
\* once per render it causes
HookState ==
  [enhancedData |-> enhancedData, nearestStation |-> nearestStation,
   stLoading |-> stLoading, stError |-> stError, hookStep |-> hookStep,
   runs |-> runs, lastDone |-> lastDone, reconsStarted |-> reconsStarted]

SetHook(h) ==
  /\ enhancedData' = h.enhancedData
  /\ nearestStation' = h.nearestStation
  /\ stLoading' = h.stLoading
  /\ stError' = h.stError
  /\ hookStep' = h.hookStep
  /\ runs' = h.runs
  /\ lastDone' = h.lastDone
  /\ reconsStarted' = h.reconsStarted

\* kind: "effect" (the effect ran), "stations" (a run went on to the
\* observations), "completed" (a run finished), "none"; stale: the run that
\* acted had been superseded by a later run of the effect
Step(kind, stale) == [kind |-> kind, stale |-> stale]

\* every run in flight is superseded by a new run of the effect
Supersede(rs) == BagOfAll(LAMBDA r : [r EXCEPT !.stale = TRUE], rs)

\* what is remembered of a run in the step that finishes it
Finished(r, cause, observations, toast) ==
  [forecastData |-> r.forecastData, useEstimation |-> r.useEstimation,
   cause |-> cause, observations |-> observations, toast |-> toast]

NoneFinished ==
  Finished([forecastData |-> NoSeries, useEstimation |-> TRUE], "none", NoSeries, NoToast)

\* a step of the hook that finishes no run
NoCompletion(h, kind, stale) ==
  [h EXCEPT !.hookStep = Step(kind, stale), !.lastDone = NoneFinished]

\* variant: the effect does not reset enhancedData to the forecast
useStationDataEffectKeepsSeries(h, latitude, forecastData, enabled, useEst, counted) ==
  LET start == enabled /\ Len(forecastData) > 0
      run == [forecastData |-> forecastData, useEstimation |-> useEst,
              pc |-> "stations", stale |-> FALSE]
  IN [NoCompletion(h, "effect", FALSE) EXCEPT
               !.stLoading = IF start THEN TRUE ELSE @,
               !.stError = IF start THEN NoError ELSE @,
               !.runs = IF start THEN Supersede(@) (+) SetToBag({run})
                        ELSE Supersede(@),
               !.reconsStarted = IF start /\ counted THEN @ + 1 ELSE @]

\* one run of the effect of useStationData: the body up to the first await of
\* fetchStationData.  A run keeps the forecastData and useEstimation of its
\* closure; the answers to its requests do not depend on latitude here.
\* counted: the run belongs to the current refresh cycle.
useStationDataEffect(h, latitude, forecastData, enabled, useEst, counted) ==
  LET start == enabled /\ Len(forecastData) > 0
      run == [forecastData |-> forecastData, useEstimation |-> useEst,
              pc |-> "stations", stale |-> FALSE]
  IN [NoCompletion(h, "effect", FALSE) EXCEPT
               !.enhancedData = forecastData,
               !.stLoading = IF start THEN TRUE ELSE @,
               !.stError = IF start THEN NoError ELSE @,
               !.runs = IF start THEN Supersede(@) (+) SetToBag({run})
                        ELSE Supersede(@),
               !.reconsStarted = IF start /\ counted THEN @ + 1 ELSE @]

\* variant: the catch block records the error but does not estimate
FallBackNoEstimateOnError(h, r, cause, toast, err) ==
     [h EXCEPT !.enhancedData = IF r.useEstimation /\ ~err
                                THEN estimateWindGusts(r.forecastData) ELSE @,
               !.stError = IF err THEN SomeError ELSE @,
               !.stLoading = FALSE,
               !.hookStep = Step("completed", r.stale),
               !.runs = @ (-) SetToBag({r}),
               !.lastDone = Finished(r, cause, NoSeries,
                                     IF r.useEstimation THEN toast ELSE NoToast)]

\* the three fallback branches: estimate when enabled, toast, loading off
FallBack(h, r, cause, toast, err) ==
     [h EXCEPT !.enhancedData = IF r.useEstimation
                                THEN estimateWindGusts(r.forecastData) ELSE @,
               !.stError = IF err THEN SomeError ELSE @,
               !.stLoading = FALSE,
               !.hookStep = Step("completed", r.stale),
               !.runs = @ (-) SetToBag({r}),
               !.lastDone = Finished(r, cause, NoSeries,
                                     IF r.useEstimation THEN toast ELSE NoToast)]

\* await fetchNearbyStations resolved with stations
StationsResolved(h, r, stations) ==
  IF Len(stations) = 0
  THEN FallBack(h, r, "noStations", EstimatedToast, FALSE)
  ELSE [NoCompletion(h, "stations", r.stale) EXCEPT
                 !.nearestStation = [id |-> stations[1], name |-> StationName(stations[1])],
                 !.runs = (@ (-) SetToBag({r}))
                          (+) SetToBag({[r EXCEPT !.pc = "observations"]})]

\* variant: the estimator is given forecastData instead of mergedData
ObservationsResolvedEstimatesForecast(h, r, observations) ==
  IF Len(observations) = 0
  THEN [h EXCEPT !.enhancedData = IF r.useEstimation
                                  THEN estimateWindGusts(r.forecastData) ELSE @,
                 !.stLoading = FALSE,
                 !.hookStep = Step("completed", r.stale),
                 !.runs = @ (-) SetToBag({r}),
                 !.lastDone = Finished(r, "noObservations", NoSeries,
                                       IF r.useEstimation THEN EstimatedToast ELSE NoToast)]
  ELSE LET mergedData == mergeWindDataWithObservations(r.forecastData, observations)
           finalData == IF r.useEstimation THEN estimateWindGusts(r.forecastData)
                        ELSE mergedData
       IN [h EXCEPT !.enhancedData = finalData,
                    !.stLoading = FALSE,
                    !.hookStep = Step("completed", r.stale),
                    !.runs = @ (-) SetToBag({r}),
                    !.lastDone = Finished(r, "merged", observations, GustAddedToast)]

\* await fetchStationObservations resolved with observations
ObservationsResolved(h, r, observations) ==
  IF Len(observations) = 0
  THEN FallBack(h, r, "noObservations", EstimatedToast, FALSE)
  ELSE LET mergedData == mergeWindDataWithObservations(r.forecastData, observations)
           finalData == IF r.useEstimation THEN estimateWindGusts(mergedData)
                        ELSE mergedData
       IN [h EXCEPT !.enhancedData = finalData,
                    !.stLoading = FALSE,
                    !.hookStep = Step("completed", r.stale),
                    !.runs = @ (-) SetToBag({r}),
                    !.lastDone = Finished(r, "merged", observations, GustAddedToast)]

\* either await rejected: the catch block, then finally
RequestRejected(h, r) == FallBack(h, r, "requestFailed", EstimatedWarningToast, TRUE)

----------------------------------------------------------------------------
\* pages/Index.tsx

\* the two effects of the page that call fetchWindData and set an interval
RefreshEffects == {1, 2}

\* the page's state as a record, so that one handler can call fetchWindData
\* more than once
PageState ==
  [windData |-> windData, loading |-> loading, error |-> error,
   fetches |-> fetches, fetchesStarted |-> fetchesStarted]

SetPage(p) ==
  /\ windData' = p.windData
  /\ loading' = p.loading
  /\ error' = p.error
  /\ fetches' = p.fetches
  /\ fetchesStarted' = p.fetchesStarted

\* fetchWindData up to its await (mock mode has none and runs to its end)
fetchWindData(p, latitude, mock, mockData) ==
  IF mock
  THEN [p EXCEPT !.windData = filterDaylightHours(mockData),
                 !.loading = FALSE,
                 !.error = NoError]
  ELSE [p EXCEPT !.loading = TRUE,
                 !.error = NoError,
                 !.fetches.current = @ + 1,
                 !.fetchesStarted = @ + 1]

\* both refresh effects run (mount, or fetchWindData was re-created): each
\* calls fetchWindData and sets its own interval
RunRefreshEffects(p, latitude, mock, mockData) ==
  fetchWindData(fetchWindData(p, latitude, mock, mockData), latitude, mock, mockData)

\* a new (location, refresh cycle) pair begins: what is in flight belongs to
\* an earlier one, and the counts start again
NewCycle(p) ==
  [p EXCEPT !.fetches = [current |-> 0, earlier |-> @.earlier + @.current],
            !.fetchesStarted = 0]
NewCycleHook(h) == [h EXCEPT !.reconsStarted = 0]

Mount ==
  /\ ~mounted
  /\ events < MaxEvents
  /\ mounted' = TRUE
  /\ events' = events + 1
  /\ \E m \in MockSeries :
       /\ SetPage(RunRefreshEffects(NewCycle(PageState), location, useMockData, m))
       /\ SetHook(useStationDataEffect(NewCycleHook(HookState), location, windData,
                                       ~useMockData, useEstimation, TRUE))
  /\ UNCHANGED <<location, useEstimation, useMockData, firedIntervals, pureVars, canvasVars, safetyVars, calcVars, fieldVars>>

handleLocationChange(lat) ==
  /\ mounted
  /\ events < MaxEvents
  /\ BagCardinality(runs) < MaxRuns
  /\ location' = lat
  /\ events' = events + 1
  /\ firedIntervals' = {}
  /\ \E m \in MockSeries :
       LET p == RunRefreshEffects(NewCycle(PageState), lat, useMockData, m)
           h0 == NewCycleHook(HookState)
           h1 == IF lat # location
                 THEN useStationDataEffect(h0, lat, windData, ~useMockData,
                                           useEstimation, TRUE)
                 ELSE NoCompletion(h0, "none", FALSE)
           h2 == IF useMockData
                 THEN useStationDataEffect(h1, lat, p.windData, FALSE, useEstimation, TRUE)
                 ELSE h1
       IN SetPage(p) /\ SetHook(h2)
  /\ UNCHANGED <<mounted, useEstimation, useMockData, pureVars, canvasVars, safetyVars, calcVars, fieldVars>>

\* the callback of the interval set by refresh effect k; the intervals of
\* both effects fire once in every refresh period
TimerFire(k) ==
  /\ mounted
  /\ events < MaxEvents
  /\ k \in RefreshEffects \ firedIntervals
  /\ events' = events + 1
  /\ firedIntervals' = IF firedIntervals \cup {k} = RefreshEffects THEN {}
                       ELSE firedIntervals \cup {k}
  /\ \E m \in MockSeries :
       LET p0 == IF firedIntervals = {} THEN NewCycle(PageState) ELSE PageState
           h0 == IF firedIntervals = {} THEN NewCycleHook(HookState) ELSE HookState
           p == fetchWindData(p0, location, useMockData, m)
           h == IF useMockData
                THEN useStationDataEffect(h0, location, p.windData, FALSE,
                                          useEstimation, TRUE)
                ELSE NoCompletion(h0, "none", FALSE)
       IN SetPage(p) /\ SetHook(h)
  /\ UNCHANGED <<mounted, location, useEstimation, useMockData, pureVars, canvasVars, safetyVars, calcVars, fieldVars>>

\* the "Gust Estimation" switch (disabled while mock data is in use)
ToggleEstimation ==
  /\ mounted
  /\ events < MaxEvents
  /\ ~useMockData
  /\ BagCardinality(runs) < MaxRuns
  /\ events' = events + 1
  /\ useEstimation' = ~useEstimation
  /\ SetHook(useStationDataEffect(HookState, location, windData, TRUE, ~useEstimation,
                                  FALSE))
  /\ UNCHANGED <<mounted, location, useMockData, windData, loading, error, fetches,
                 firedIntervals, fetchesStarted, pureVars, canvasVars, safetyVars, calcVars, fieldVars>>

\* the "Use Mock Data" switch
ToggleMockData ==
  /\ mounted
  /\ events < MaxEvents
  /\ BagCardinality(runs) < MaxRuns
  /\ events' = events + 1
  /\ useMockData' = ~useMockData
  /\ firedIntervals' = {}
  /\ \E m \in MockSeries :
       LET mock == ~useMockData
           p == RunRefreshEffects(NewCycle(PageState), location, mock, m)
           h1 == useStationDataEffect(NewCycleHook(HookState), location, windData, ~mock,
                                      useEstimation, TRUE)
           h2 == IF mock
                 THEN useStationDataEffect(h1, location, p.windData, FALSE,
                                           useEstimation, TRUE)
                 ELSE h1
       IN SetPage(p) /\ SetHook(h2)
  /\ UNCHANGED <<mounted, location, useEstimation, pureVars, canvasVars, safetyVars, calcVars, fieldVars>>

\* await fetchNWSForecast resolved: the rest of the try block, then finally
FetchResolved(which, data) ==
  /\ fetches[which] > 0
  /\ BagCardinality(runs) < MaxRuns
  /\ LET p == [PageState EXCEPT !.windData = filterDaylightHours(data),
                                !.loading = FALSE,
                                !.fetches[which] = @ - 1]
     IN /\ SetPage(p)
        /\ SetHook(useStationDataEffect(HookState, location, p.windData, ~useMockData,
                                        useEstimation, which = "current"))
  /\ UNCHANGED <<mounted, location, useEstimation, useMockData, firedIntervals,
                 events, pureVars, canvasVars, safetyVars, calcVars, fieldVars>>

\* the variant whose catch block drops the series
FetchRejectedDropsSeries(which, confirmed) ==
  /\ fetches[which] > 0
  /\ \E m \in MockSeries :
       LET failed == [PageState EXCEPT !.error = SomeError,
                                       !.windData = NoSeries,
                                       !.loading = FALSE,
                                       !.fetches[which] = @ - 1]
           p1 == [failed EXCEPT !.windData = filterDaylightHours(m)]
           h1 == useStationDataEffect(HookState, location, p1.windData, FALSE,
                                      useEstimation, FALSE)
           p2 == RunRefreshEffects(p1, location, TRUE, m)
           h2 == useStationDataEffect(h1, location, p2.windData, FALSE, useEstimation,
                                      FALSE)
       IN IF ~confirmed
          THEN /\ SetPage(failed)
               /\ SetHook(NoCompletion(HookState, "none", FALSE))
               /\ UNCHANGED <<useMockData, firedIntervals>>
          ELSE IF useMockData
          THEN /\ SetPage(p1)
               /\ SetHook(h1)
               /\ UNCHANGED <<useMockData, firedIntervals>>
          ELSE /\ SetPage(p2)
               /\ SetHook(h2)
               /\ useMockData' = TRUE
               /\ firedIntervals' = {}
  /\ UNCHANGED <<mounted, location, useEstimation, events, pureVars, canvasVars, safetyVars, calcVars, fieldVars>>

\* await fetchNWSForecast rejected: the catch block with the answer to confirm(),
\* then finally
FetchRejected(which, confirmed) ==
  /\ fetches[which] > 0
  /\ \E m \in MockSeries :
       LET failed == [PageState EXCEPT !.error = SomeError,
                                       !.loading = FALSE,
                                       !.fetches[which] = @ - 1]
           p1 == [failed EXCEPT !.windData = filterDaylightHours(m)]
           h1 == useStationDataEffect(HookState, location, p1.windData, FALSE,
                                      useEstimation, FALSE)
           p2 == RunRefreshEffects(p1, location, TRUE, m)
           h2 == useStationDataEffect(h1, location, p2.windData, FALSE, useEstimation,
                                      FALSE)
       IN IF ~confirmed
          THEN /\ SetPage(failed)
               /\ SetHook(NoCompletion(HookState, "none", FALSE))
               /\ UNCHANGED <<useMockData, firedIntervals>>
          ELSE IF useMockData
          THEN /\ SetPage(p1)
               /\ SetHook(h1)
               /\ UNCHANGED <<useMockData, firedIntervals>>
          ELSE /\ SetPage(p2)
               /\ SetHook(h2)
               /\ useMockData' = TRUE
               /\ firedIntervals' = {}
  /\ UNCHANGED <<mounted, location, useEstimation, events, pureVars, canvasVars, safetyVars, calcVars, fieldVars>>

pageVars == <<mounted, location, useEstimation, useMockData, windData, loading, error,
              fetches, firedIntervals, fetchesStarted, events>>

\* a run of fetchStationData resumes after await fetchNearbyStations
StationsAnswer(r, stations) ==
  /\ BagIn(r, runs)
  /\ r.pc = "stations"
  /\ SetHook(StationsResolved(HookState, r, stations))
  /\ UNCHANGED <<pageVars, pureVars, canvasVars, safetyVars, calcVars, fieldVars>>

\* a run of fetchStationData resumes after await fetchStationObservations
ObservationsAnswer(r, observations) ==
  /\ BagIn(r, runs)
  /\ r.pc = "observations"
  /\ SetHook(ObservationsResolved(HookState, r, observations))
  /\ UNCHANGED <<pageVars, pureVars, canvasVars, safetyVars, calcVars, fieldVars>>

\* the request a run of fetchStationData awaits fails
RequestFails(r) ==
  /\ BagIn(r, runs)
  /\ SetHook(RequestRejected(HookState, r))
  /\ UNCHANGED <<pageVars, pureVars, canvasVars, safetyVars, calcVars, fieldVars>>

----------------------------------------------------------------------------
\* utils/windCalculations.ts (unnamed/part_007)

\* safety thresholds, in tenths of a m/s
MAX_SAFE_WIND == 110
MAX_SAFE_GUST == 120

\* a speed at a height is kept to four more decimal places than a speed of the
\* series: FactorScale of its units make a tenth of a m/s
FactorScale == 10000

\* Math.pow(ratio, 1/7), in units of 1/FactorScale and rounded down, for the
\* ratios targetHeight / referenceHeight the program forms
PowerLawFactor(ratio) ==
  CASE ratio = 1 -> 10000
    [] ratio = 2 -> 11040
    [] ratio = 5 -> 12584
    [] ratio = 8 -> 13459
    [] ratio = 10 -> 13894
    [] ratio = 12 -> 14261
    [] ratio = 128 -> 20000

\* the numbers that are no speed: NaN and Infinity
NaN == -3
PositiveInfinity == -4

\* referenceSpeed * Math.pow(targetHeight / referenceHeight, alpha), alpha = 1/7;
\* the speed in tenths (never negative), the result in units of 1/FactorScale of
\* a tenth.  The function tests neither height.  A quotient 0/0 is NaN and so
\* is the result; a quotient x/0 is an infinity, its power Infinity, and the
\* product Infinity or, with speed 0, NaN; a quotient 0/x is a zero, its power 0;
\* the power of a negative quotient is NaN; two negative heights have a
\* positive quotient
estimateWindAtHeight(referenceSpeed, referenceHeight, targetHeight) ==
  IF referenceHeight > 0 /\ targetHeight > 0
  THEN referenceSpeed * PowerLawFactor(targetHeight \div referenceHeight)
  ELSE IF referenceHeight = 0 /\ targetHeight = 0 THEN NaN
  ELSE IF referenceHeight = 0
       THEN IF referenceSpeed = 0 THEN NaN ELSE PositiveInfinity
  ELSE IF targetHeight = 0 THEN 0
  ELSE IF referenceHeight < 0 /\ targetHeight < 0
       THEN referenceSpeed * PowerLawFactor((0 - targetHeight) \div (0 - referenceHeight))
  ELSE NaN

\* a speed or gust of the series (tenths) in the units of a speed at a height
AtScale(speed) == IF speed = Undefined THEN Undefined ELSE speed * FactorScale

\* the variant that takes a speed or gust at its limit for unsafe
isSafeForDronesAtLimitUnsafe(windSpeed, gustSpeed) ==
  IF windSpeed >= MAX_SAFE_WIND * FactorScale THEN FALSE
  ELSE IF gustSpeed # Undefined /\ gustSpeed >= MAX_SAFE_GUST * FactorScale THEN FALSE
  ELSE TRUE

\* both arguments in the units of a speed at a height
isSafeForDrones(windSpeed, gustSpeed) ==
  IF windSpeed > MAX_SAFE_WIND * FactorScale THEN FALSE
  ELSE IF gustSpeed # Undefined /\ gustSpeed > MAX_SAFE_GUST * FactorScale THEN FALSE
  ELSE TRUE

----------------------------------------------------------------------------
\* WindParticlesCanvas (unnamed/part_000): values

NoMap == "null"
TheMap == "map"

\* the default of prop height and the heights the canvas is shown at
ReferenceHeight == 10
Heights == {10, 1280}

\* a CurrentWindPoint; positions on a grid whose unit is the way a wind of
\* 1 m/s carries a particle in one step at zoom 8
P(lng, lat, speed, dir) ==
  [longitude |-> lng, latitude |-> lat, windSpeed |-> speed, windDirection |-> dir]

PointSets == { <<>>, << P(0, 0, 10, 90) >> }

\* what the map answers for getBounds() and getZoom()
View(w, s, e, n, z) == [bounds |-> [west |-> w, south |-> s, east |-> e, north |-> n],
                        zoom |-> z]

Views == { View(0, 0, 2, 2, 8), View(1, 1, 3, 3, 8), View(0, 0, 1, 1, 16) }

InitialView == View(0, 0, 2, 2, 8)

\* a step closure: the props of the render whose effect registered it
Closure(e, pts, h) == [enabled |-> e, points |-> pts, height |-> h]

NoListener == [enabled |-> FALSE, points |-> <<>>, height |-> 0]

\* what a step did: kind is "none", "tick", "idle" (a call of step that
\* returned at once) or the reason of a seeding: "start" (the effect of
\* [map, enabled]), "field" (the effect of [points, height, map]) or "resize";
\* exited and expired are the particles a tick respawned because they were
\* out of bounds or too old
CanvasStep(kind, exited, expired) == [kind |-> kind, exited |-> exited, expired |-> expired]

NoStep == CanvasStep("none", {}, {})

CanvasUnmounted ==
  /\ canvasMounted = FALSE
  /\ map = NoMap
  /\ canvasEnabled = TRUE
  /\ points = <<>>
  /\ height = ReferenceHeight
  /\ bounds = InitialView.bounds
  /\ zoom = InitialView.zoom
  /\ particles = <<>>
  /\ frames = EmptyBag
  /\ listeners = NoListener
  /\ canvasStep = NoStep
  /\ canvasEvents = 0

\* components/SafetyIndicator.tsx before its render
SafetyUnrendered ==
  /\ sWindData = <<>>
  /\ sNow = T(1, 0, 0)
  /\ relevantData = <<>>
  /\ safetyByHeight = <<>>
  /\ isOverallSafe = FALSE
  /\ sRendered = FALSE

\* how a call ends that returns value: the functions of windCalculations have
\* no throw statement
Returned(value) == [threw |-> FALSE, value |-> value]

\* windCalculations before any call
CalcUncalled ==
  /\ qWindSpeed = 0
  /\ qGustSpeed = Undefined
  /\ qSafe = FALSE
  /\ qJudged = FALSE
  /\ qReferenceSpeed = 0
  /\ qReferenceHeight = ReferenceHeight
  /\ qTargetHeight = ReferenceHeight
  /\ qEstimate = Returned(0)
  /\ qEstimated = FALSE

\* sampleVector before any call
FieldUnsampled ==
  /\ vPoints = <<>>
  /\ vHeight = ReferenceHeight
  /\ vLng = 0
  /\ vLat = 0
  /\ vResult = [east |-> 0, north |-> 0, speed |-> 0]
  /\ vChanged = <<>>
  /\ vResultChanged = [east |-> 0, north |-> 0, speed |-> 0]
  /\ vStage = "input"

Init ==
  /\ mounted = FALSE
  /\ location = DefaultLocation
  /\ useEstimation = TRUE
  /\ useMockData = FALSE
  /\ windData = <<>>
  /\ loading = TRUE
  /\ error = NoError
  /\ fetches = [current |-> 0, earlier |-> 0]
  /\ firedIntervals = {}
  /\ fetchesStarted = 0
  /\ reconsStarted = 0
  /\ events = 0
  /\ enhancedData = <<>>
  /\ nearestStation = NoStation
  /\ stLoading = FALSE
  /\ stError = NoError
  /\ hookStep = Step("none", FALSE)
  /\ runs = EmptyBag
  /\ lastDone = NoneFinished
  /\ pForecast = <<>>
  /\ pObservations = <<>>
  /\ pMerged = <<>>
  /\ pMergedTwice = <<>>
  /\ pEstimated = <<>>
  /\ pStage = "input"
  /\ CanvasUnmounted
  /\ SafetyUnrendered
  /\ CalcUncalled
  /\ FieldUnsampled

Next ==
  \/ Mount
  \/ \E lat \in Locations : handleLocationChange(lat)
  \/ \E k \in RefreshEffects : TimerFire(k)
  \/ ToggleEstimation
  \/ ToggleMockData
  \/ \E which \in DOMAIN fetches : \E data \in NWSForecasts : FetchResolved(which, data)
  \/ \E which \in DOMAIN fetches : \E confirmed \in BOOLEAN : FetchRejected(which, confirmed)
  \/ \E r \in BagToSet(runs) : \E stations \in StationAnswers : StationsAnswer(r, stations)
  \/ \E r \in BagToSet(runs) : \E observations \in ObservationAnswers :
       ObservationsAnswer(r, observations)
  \/ \E r \in BagToSet(runs) : RequestFails(r)

Spec == Init /\ [][Next]_vars

----------------------------------------------------------------------------
\* utils/weatherApi.ts applied directly: every forecast series and observation
\* list up to the bounds, the page and the hook left as constructed

\* sequences over S of length at most n
RECURSIVE SeqsUpTo(_, _)
SeqsUpTo(S, n) ==
  IF n = 0 THEN { <<>> }
  ELSE LET shorter == SeqsUpTo(S, n - 1)
       IN shorter \cup { Append(q, x) : q \in { t \in shorter : Len(t) = n - 1 }, x \in S }

PureSamples ==
  { W(ts, sg[1], sg[2]) :
      ts \in { T(1, 10, 0), T(1, 11, 0) },
      sg \in { <<0, Undefined>>, <<50, Undefined>>, <<50, 0>>, <<50, 60>> } }

PureObservations ==
  { O(T(1, 10, 30), Null), O(T(1, 10, 30), 90), O(T(1, 10, 45), 40),
    O(T(1, 11, 20), Null), O(T(1, 12, 0), 90) }

InitMerge ==
  /\ mounted = FALSE
  /\ location = DefaultLocation
  /\ useEstimation = TRUE
  /\ useMockData = FALSE
  /\ windData = <<>>
  /\ loading = TRUE
  /\ error = NoError
  /\ fetches = [current |-> 0, earlier |-> 0]
  /\ firedIntervals = {}
  /\ fetchesStarted = 0
  /\ reconsStarted = 0
  /\ events = 0
  /\ enhancedData = <<>>
  /\ nearestStation = NoStation
  /\ stLoading = FALSE
  /\ stError = NoError
  /\ hookStep = Step("none", FALSE)
  /\ runs = EmptyBag
  /\ lastDone = NoneFinished
  /\ pForecast \in SeqsUpTo(PureSamples, MaxForecastLen)
  /\ pObservations \in SeqsUpTo(PureObservations, MaxObsLen)
  /\ pMerged = <<>>
  /\ pMergedTwice = <<>>
  /\ pEstimated = <<>>
  /\ pStage = "input"
  /\ CanvasUnmounted
  /\ SafetyUnrendered
  /\ CalcUncalled
  /\ FieldUnsampled

programVars == <<pageVars, hookVars, reconsStarted, canvasVars, safetyVars, calcVars, fieldVars>>

ApplyMerge ==
  /\ pStage = "input"
  /\ pMerged' = mergeWindDataWithObservations(pForecast, pObservations)
  /\ pStage' = "merged"
  /\ UNCHANGED <<programVars, pForecast, pObservations, pMergedTwice, pEstimated>>

ApplyMergeAgain ==
  /\ pStage = "merged"
  /\ pMergedTwice' = mergeWindDataWithObservations(pMerged, pObservations)
  /\ pStage' = "mergedTwice"
  /\ UNCHANGED <<programVars, pForecast, pObservations, pMerged, pEstimated>>

ApplyEstimate ==
  /\ pStage = "mergedTwice"
  /\ pEstimated' = estimateWindGusts(pForecast)
  /\ pStage' = "estimated"
  /\ UNCHANGED <<programVars, pForecast, pObservations, pMerged, pMergedTwice>>

NextMerge == ApplyMerge \/ ApplyMergeAgain \/ ApplyEstimate

SpecMerge == InitMerge /\ [][NextMerge]_vars

----------------------------------------------------------------------------
\* WindParticlesCanvas (unnamed/part_000): the field and the particles

\* seedParticles(500), with the population scaled down to BatchSize
BatchSize == 1
\* prop changes and map events in one behaviour
MaxCanvasEvents == 2

\* pt.age > 100
MaxAge == 100
\* Math.floor(Math.random() * 90)
SeedAgeLimit == 90
SeedAges == {0, SeedAgeLimit - 1}

clamp(v, min, max) == IF v < min THEN min ELSE IF v > max THEN max ELSE v

\* dt = clamp(0.6 + (zoom - 8) * 0.08, 0.3, 1.2), in hundredths
TimeStep(z) == clamp(60 + (z - 8) * 8, 30, 120)

\* Math.cos and Math.sin of the directions of the compass, in degrees
Cos(dir) == CASE dir = 0 -> 1 [] dir = 90 -> 0 [] dir = 180 -> -1 [] dir = 270 -> 0
Sin(dir) == CASE dir = 0 -> 0 [] dir = 90 -> 1 [] dir = 180 -> 0 [] dir = 270 -> -1

RECURSIVE SumOver(_, _)
SumOver(f, S) ==
  IF S = {} THEN 0
  ELSE LET x == CHOOSE y \in S : TRUE IN f[x] + SumOver(f, S \ {x})

\* w = 1 / (dist * dist) with dist = Math.hypot(dLat, dLng) + 1e-6, as a whole
\* number: the 1e-6 counts only for a point at the place asked for
WeightScale == 60
WeightAtPoint == 1000
IdwWeight(dist2) == IF dist2 = 0 THEN WeightAtPoint ELSE WeightScale \div dist2

\* the variant that weighs every point instead of the 4 nearest
sampleVectorEveryPoint(pts, h, lng, lat) ==
  IF Len(pts) = 0 THEN [east |-> 0, north |-> 0, speed |-> 0]
  ELSE LET dist2 == [i \in DOMAIN pts |->
                       (pts[i].latitude - lat) * (pts[i].latitude - lat)
                       + (pts[i].longitude - lng) * (pts[i].longitude - lng)]
           neighbors == DOMAIN pts
           w == [i \in DOMAIN pts |-> IdwWeight(dist2[i])]
           spd == [i \in DOMAIN pts |->
                     estimateWindAtHeight(pts[i].windSpeed, ReferenceHeight, h)]
           sumW == SumOver(w, neighbors)
           east == SumOver([i \in DOMAIN pts |-> Sin(pts[i].windDirection) * spd[i] * w[i]],
                           neighbors)
           north == SumOver([i \in DOMAIN pts |-> Cos(pts[i].windDirection) * spd[i] * w[i]],
                            neighbors)
           speed == SumOver([i \in DOMAIN pts |-> spd[i] * w[i]], neighbors)
       IN IF sumW = 0 THEN [east |-> 0, north |-> 0, speed |-> 0]
          ELSE [east |-> east \div sumW, north |-> north \div sumW,
                speed |-> speed \div sumW]

\* the variant whose speed is the mean of the speeds at the reference height
sampleVectorSpeedAtReference(pts, h, lng, lat) ==
  IF Len(pts) = 0 THEN [east |-> 0, north |-> 0, speed |-> 0]
  ELSE LET dist2 == [i \in DOMAIN pts |->
                       (pts[i].latitude - lat) * (pts[i].latitude - lat)
                       + (pts[i].longitude - lng) * (pts[i].longitude - lng)]
           before(i) == { j \in DOMAIN pts :
                            dist2[j] < dist2[i] \/ (dist2[j] = dist2[i] /\ j < i) }
           neighbors == { i \in DOMAIN pts : Cardinality(before(i)) < 4 }
           w == [i \in DOMAIN pts |-> IdwWeight(dist2[i])]
           spd == [i \in DOMAIN pts |->
                     estimateWindAtHeight(pts[i].windSpeed, ReferenceHeight, h)]
           sumW == SumOver(w, neighbors)
           east == SumOver([i \in DOMAIN pts |-> Sin(pts[i].windDirection) * spd[i] * w[i]],
                           neighbors)
           north == SumOver([i \in DOMAIN pts |-> Cos(pts[i].windDirection) * spd[i] * w[i]],
                            neighbors)
           speed == SumOver([i \in DOMAIN pts |-> pts[i].windSpeed * FactorScale * w[i]],
                            neighbors)
       IN IF sumW = 0 THEN [east |-> 0, north |-> 0, speed |-> 0]
          ELSE [east |-> east \div sumW, north |-> north \div sumW,
                speed |-> speed \div sumW]

\* sampleVector with the points and height its closure holds
sampleVector(pts, h, lng, lat) ==
  IF Len(pts) = 0 THEN [east |-> 0, north |-> 0, speed |-> 0]
  ELSE LET dist2 == [i \in DOMAIN pts |->
                       (pts[i].latitude - lat) * (pts[i].latitude - lat)
                       + (pts[i].longitude - lng) * (pts[i].longitude - lng)]
           \* the places before i after the sort by distance
           before(i) == { j \in DOMAIN pts :
                            dist2[j] < dist2[i] \/ (dist2[j] = dist2[i] /\ j < i) }
           neighbors == { i \in DOMAIN pts : Cardinality(before(i)) < 4 }
           w == [i \in DOMAIN pts |-> IdwWeight(dist2[i])]
           spd == [i \in DOMAIN pts |->
                     estimateWindAtHeight(pts[i].windSpeed, ReferenceHeight, h)]
           sumW == SumOver(w, neighbors)
           east == SumOver([i \in DOMAIN pts |-> Sin(pts[i].windDirection) * spd[i] * w[i]],
                           neighbors)
           north == SumOver([i \in DOMAIN pts |-> Cos(pts[i].windDirection) * spd[i] * w[i]],
                            neighbors)
           speed == SumOver([i \in DOMAIN pts |-> spd[i] * w[i]], neighbors)
       IN IF sumW = 0 THEN [east |-> 0, north |-> 0, speed |-> 0]
          ELSE [east |-> east \div sumW, north |-> north \div sumW,
                speed |-> speed \div sumW]

\* west + Math.random() * (east - west), south + Math.random() * (north - south):
\* Math.random() is below 1
RandomPositions(b) == [lng : b.west .. (b.east - 1), lat : b.south .. (b.north - 1)]

\* variant: particlesRef.current is not emptied before the particles are pushed
seedParticlesAppends(count, m, b) ==
  IF m = NoMap THEN { particles }
  ELSE { particles \o
           [i \in 1..count |-> [lng |-> rnd[i].lng, lat |-> rnd[i].lat, age |-> ages[i]]] :
           rnd \in [1..count -> RandomPositions(b)], ages \in [1..count -> SeedAges] }

\* the arrays seedParticles(count) can leave in particlesRef.current
seedParticles(count, m, b) ==
  IF m = NoMap THEN { <<>> }
  ELSE { [i \in 1..count |-> [lng |-> rnd[i].lng, lat |-> rnd[i].lat, age |-> ages[i]]] :
           rnd \in [1..count -> RandomPositions(b)], ages \in [1..count -> SeedAges] }

Outside(pt, b) ==
  pt.lng < b.west \/ pt.lng > b.east \/ pt.lat < b.south \/ pt.lat > b.north

Respawn(rnd) == [lng |-> rnd.lng, lat |-> rnd.lat, age |-> 0]

\* one grid unit: 1 m/s (10 tenths) for a dt of 0.6
GridUnit == 10 * FactorScale * 60

\* (v * dt) / meterPerDeg, in grid units; the viewport lies where
\* Math.cos(latRad) is 1 to the precision of the grid
Displacement(v, dt) == (v * dt) \div GridUnit

\* variant: a particle out of bounds is skipped and not respawned
StepParticleSkipsOutside(pt, c, b, z, rnd) ==
  IF Outside(pt, b) THEN pt
  ELSE LET v == sampleVector(c.points, c.height, pt.lng, pt.lat)
           dt == TimeStep(z)
           moved == [lng |-> pt.lng + Displacement(v.east, dt),
                     lat |-> pt.lat + Displacement(v.north, dt),
                     age |-> pt.age + 1]
       IN IF moved.age > MaxAge THEN Respawn(rnd) ELSE moved

\* variant: the return after the respawn of a particle out of bounds is
\* missing, so the respawned particle is advected in the same call
StepParticleNoReturn(pt, c, b, z, rnd) ==
  LET from == IF Outside(pt, b) THEN Respawn(rnd) ELSE pt
      v == sampleVector(c.points, c.height, from.lng, from.lat)
      dt == TimeStep(z)
      moved == [lng |-> from.lng + Displacement(v.east, dt),
                lat |-> from.lat + Displacement(v.north, dt),
                age |-> from.age + 1]
  IN IF moved.age > MaxAge THEN Respawn(rnd) ELSE moved

\* variant: a particle that is too old gets a new place but keeps its age
StepParticleExpiredKeepsAge(pt, c, b, z, rnd) ==
  IF Outside(pt, b) THEN Respawn(rnd)
  ELSE LET v == sampleVector(c.points, c.height, pt.lng, pt.lat)
           dt == TimeStep(z)
           moved == [lng |-> pt.lng + Displacement(v.east, dt),
                     lat |-> pt.lat + Displacement(v.north, dt),
                     age |-> pt.age + 1]
       IN IF moved.age > MaxAge THEN [Respawn(rnd) EXCEPT !.age = moved.age] ELSE moved

\* variant: a particle is respawned one tick later
StepParticleExpiresLate(pt, c, b, z, rnd) ==
  IF Outside(pt, b) THEN Respawn(rnd)
  ELSE LET v == sampleVector(c.points, c.height, pt.lng, pt.lat)
           dt == TimeStep(z)
           moved == [lng |-> pt.lng + Displacement(v.east, dt),
                     lat |-> pt.lat + Displacement(v.north, dt),
                     age |-> pt.age + 1]
       IN IF moved.age > MaxAge + 1 THEN Respawn(rnd) ELSE moved

\* the body of particlesRef.current.forEach in step, for one particle
StepParticle(pt, c, b, z, rnd) ==
  IF Outside(pt, b) THEN Respawn(rnd)
  ELSE LET v == sampleVector(c.points, c.height, pt.lng, pt.lat)
           dt == TimeStep(z)
           moved == [lng |-> pt.lng + Displacement(v.east, dt),
                     lat |-> pt.lat + Displacement(v.north, dt),
                     age |-> pt.age + 1]
       IN IF moved.age > MaxAge THEN Respawn(rnd) ELSE moved

\* rafRef.current = requestAnimationFrame(step): the new frame is the one
\* rafRef names, any frame it named before is no longer named
requestAnimationFrame(fr, c) ==
  BagOfAll(LAMBDA f : [f EXCEPT !.tracked = FALSE], fr)
    (+) SetToBag({ [closure |-> c, tracked |-> TRUE] })

\* if (rafRef.current) cancelAnimationFrame(rafRef.current)
cancelAnimationFrame(fr) ==
  [f \in { g \in BagToSet(fr) : ~g.tracked } |-> fr[f]]

\* step() of closure c, with fr the frames still requested and b, z what the
\* map answers for getBounds() and getZoom() when it runs
step(c, fr, b, z) ==
  IF ~canvasMounted \/ ~c.enabled
  THEN /\ particles' = particles
       /\ frames' = fr
       /\ canvasStep' = CanvasStep("idle", {}, {})
  ELSE \E rnd \in [DOMAIN particles -> RandomPositions(b)] :
         /\ particles' = [i \in DOMAIN particles |->
                            StepParticle(particles[i], c, b, z, rnd[i])]
         /\ frames' = requestAnimationFrame(fr, c)
         /\ canvasStep' =
              CanvasStep("tick",
                         { i \in DOMAIN particles : Outside(particles[i], b) },
                         { i \in DOMAIN particles :
                             ~Outside(particles[i], b) /\ particles[i].age + 1 > MaxAge })

\* the effect of [map, enabled] after its cleanup, and the effect of
\* [points, height, map], for the props m, e, pts, h: both seed, the first
\* starts the animation and registers the listeners
RunCanvasEffects(m, e, pts, h, animation) ==
  IF m = NoMap
  THEN UNCHANGED <<particles, frames, listeners>> /\ canvasStep' = NoStep
  ELSE /\ particles' \in seedParticles(BatchSize, m, bounds)
       /\ canvasStep' = CanvasStep(IF animation THEN "start" ELSE "field", {}, {})
       /\ IF animation
          THEN /\ frames' = requestAnimationFrame(cancelAnimationFrame(frames),
                                                  Closure(e, pts, h))
               /\ listeners' = Closure(e, pts, h)
          ELSE UNCHANGED <<frames, listeners>>

\* first render of the component
CanvasMount(m, e, pts, h) ==
  /\ ~canvasMounted
  /\ canvasEvents = 0
  /\ canvasMounted' = TRUE
  /\ map' = m
  /\ canvasEnabled' = e
  /\ points' = pts
  /\ height' = h
  /\ RunCanvasEffects(m, e, pts, h, TRUE)
  /\ UNCHANGED <<bounds, zoom, canvasEvents>>

\* the parent passes the map once it is loaded
SetMap ==
  /\ canvasMounted
  /\ map = NoMap
  /\ canvasEvents < MaxCanvasEvents
  /\ canvasEvents' = canvasEvents + 1
  /\ map' = TheMap
  /\ RunCanvasEffects(TheMap, canvasEnabled, points, height, TRUE)
  /\ UNCHANGED <<canvasMounted, canvasEnabled, points, height, bounds, zoom>>

\* prop enabled changes: cleanup, then the effect of [map, enabled] again
SetEnabled ==
  /\ canvasMounted
  /\ canvasEvents < MaxCanvasEvents
  /\ canvasEvents' = canvasEvents + 1
  /\ canvasEnabled' = ~canvasEnabled
  /\ RunCanvasEffects(map, ~canvasEnabled, points, height, TRUE)
  /\ UNCHANGED <<canvasMounted, map, points, height, bounds, zoom>>

\* props points or height change: the effect of [points, height, map]
SetField(pts, h) ==
  /\ canvasMounted
  /\ canvasEvents < MaxCanvasEvents
  /\ <<pts, h>> # <<points, height>>
  /\ canvasEvents' = canvasEvents + 1
  /\ points' = pts
  /\ height' = h
  /\ RunCanvasEffects(map, canvasEnabled, pts, h, FALSE)
  /\ UNCHANGED <<canvasMounted, map, canvasEnabled, bounds, zoom>>

\* the map fires 'move': the registered step runs
MapMove(view) ==
  /\ map = TheMap
  /\ canvasEvents < MaxCanvasEvents
  /\ view.zoom = zoom
  /\ view.bounds # bounds
  /\ canvasEvents' = canvasEvents + 1
  /\ bounds' = view.bounds
  /\ zoom' = zoom
  /\ IF listeners = NoListener
     THEN UNCHANGED <<particles, frames>> /\ canvasStep' = NoStep
     ELSE step(listeners, frames, view.bounds, zoom)
  /\ UNCHANGED <<canvasMounted, map, canvasEnabled, points, height, listeners>>

\* the map fires 'zoom': the registered step runs
MapZoom(view) ==
  /\ map = TheMap
  /\ canvasEvents < MaxCanvasEvents
  /\ view.zoom # zoom
  /\ canvasEvents' = canvasEvents + 1
  /\ bounds' = view.bounds
  /\ zoom' = view.zoom
  /\ IF listeners = NoListener
     THEN UNCHANGED <<particles, frames>> /\ canvasStep' = NoStep
     ELSE step(listeners, frames, view.bounds, view.zoom)
  /\ UNCHANGED <<canvasMounted, map, canvasEnabled, points, height, listeners>>

\* variant: handleResize resizes the canvas and does not seed
handleResizeCanvasOnly(view) ==
  /\ map = TheMap
  /\ canvasEvents < MaxCanvasEvents
  /\ view.zoom = zoom
  /\ canvasEvents' = canvasEvents + 1
  /\ bounds' = view.bounds
  /\ particles' = particles
  /\ canvasStep' = IF listeners = NoListener THEN NoStep ELSE CanvasStep("resize", {}, {})
  /\ UNCHANGED <<canvasMounted, map, canvasEnabled, points, height, zoom, frames,
                 listeners>>

\* the map fires 'resize': handleResize resizes the canvas and seeds again
handleResize(view) ==
  /\ map = TheMap
  /\ canvasEvents < MaxCanvasEvents
  /\ view.zoom = zoom
  /\ canvasEvents' = canvasEvents + 1
  /\ bounds' = view.bounds
  /\ IF listeners = NoListener
     THEN UNCHANGED particles /\ canvasStep' = NoStep
     ELSE /\ particles' \in seedParticles(BatchSize, map, bounds')
          /\ canvasStep' = CanvasStep("resize", {}, {})
  /\ UNCHANGED <<canvasMounted, map, canvasEnabled, points, height, zoom, frames,
                 listeners>>

\* the browser runs a requested animation frame
FrameFires(f) ==
  /\ BagIn(f, frames)
  /\ step(f.closure, frames (-) SetToBag({f}), bounds, zoom)
  /\ UNCHANGED <<canvasMounted, map, canvasEnabled, points, height, bounds, zoom,
                 listeners, canvasEvents>>

\* the component unmounts: the cleanup of the effect of [map, enabled]
CanvasUnmount ==
  /\ canvasMounted
  /\ canvasEvents < MaxCanvasEvents
  /\ canvasEvents' = canvasEvents + 1
  /\ canvasMounted' = FALSE
  /\ frames' = cancelAnimationFrame(frames)
  /\ listeners' = NoListener
  /\ canvasStep' = NoStep
  /\ UNCHANGED <<map, canvasEnabled, points, height, bounds, zoom, particles>>

\* the page, the hook and the pure applications as constructed
RestAtRest ==
  /\ mounted = FALSE
  /\ location = DefaultLocation
  /\ useEstimation = TRUE
  /\ useMockData = FALSE
  /\ windData = <<>>
  /\ loading = TRUE
  /\ error = NoError
  /\ fetches = [current |-> 0, earlier |-> 0]
  /\ firedIntervals = {}
  /\ fetchesStarted = 0
  /\ reconsStarted = 0
  /\ events = 0
  /\ enhancedData = <<>>
  /\ nearestStation = NoStation
  /\ stLoading = FALSE
  /\ stError = NoError
  /\ hookStep = Step("none", FALSE)
  /\ runs = EmptyBag
  /\ lastDone = NoneFinished
  /\ pForecast = <<>>
  /\ pObservations = <<>>
  /\ pMerged = <<>>
  /\ pMergedTwice = <<>>
  /\ pEstimated = <<>>
  /\ pStage = "input"

InitParticles == RestAtRest /\ CanvasUnmounted /\ SafetyUnrendered /\ CalcUncalled /\ FieldUnsampled

otherThanCanvas == <<pageVars, hookVars, reconsStarted, pureVars, safetyVars, calcVars, fieldVars>>

NextParticles ==
  \/ \E m \in {NoMap, TheMap} : \E e \in BOOLEAN : \E pts \in PointSets : \E h \in Heights :
       CanvasMount(m, e, pts, h) /\ UNCHANGED otherThanCanvas
  \/ SetMap /\ UNCHANGED otherThanCanvas
  \/ SetEnabled /\ UNCHANGED otherThanCanvas
  \/ \E pts \in PointSets : \E h \in Heights : SetField(pts, h) /\ UNCHANGED otherThanCanvas
  \/ \E view \in Views : MapMove(view) /\ UNCHANGED otherThanCanvas
  \/ \E view \in Views : MapZoom(view) /\ UNCHANGED otherThanCanvas
  \/ \E view \in Views : handleResize(view) /\ UNCHANGED otherThanCanvas
  \/ \E f \in BagToSet(frames) : FrameFires(f) /\ UNCHANGED otherThanCanvas
  \/ CanvasUnmount /\ UNCHANGED otherThanCanvas

SpecParticles == InitParticles /\ [][NextParticles]_vars

\* the browser runs every animation frame that stays requested
SpecParticlesLive ==
  SpecParticles /\ WF_vars(\E f \in BagToSet(frames) : FrameFires(f) /\ UNCHANGED otherThanCanvas)

----------------------------------------------------------------------------
\* components/SafetyIndicator.tsx: one render for a series and a clock

MaxSafetyLen == 3

ANALYSIS_HEIGHTS == <<10, 20, 50, 80, 100, 120>>

\* Date.getTime(), in minutes from the start of the month
GetTime(ts) == ((ts.date * 24) + ts.hours) * 60 + ts.minutes

\* 2 * 60 * 60 * 1000 ms, in minutes
TwoHours == 2 * 60

\* variant: the end of the window is compared with <
RelevantDataOpenEnd(data, now) ==
  LET nextTwoHours ==
        SelectSeq(data, LAMBDA d : /\ GetTime(d.timestamp) >= GetTime(now)
                                   /\ GetTime(d.timestamp) < GetTime(now) + TwoHours)
  IN IF Len(nextTwoHours) > 0 THEN nextTwoHours
     ELSE SubSeq(data, 1, IF Len(data) < 2 THEN Len(data) ELSE 2)

\* nextTwoHours.length > 0 ? nextTwoHours : windData.slice(0, 2)
RelevantData(data, now) ==
  LET nextTwoHours ==
        SelectSeq(data, LAMBDA d : /\ GetTime(d.timestamp) >= GetTime(now)
                                   /\ GetTime(d.timestamp) <= GetTime(now) + TwoHours)
  IN IF Len(nextTwoHours) > 0 THEN nextTwoHours
     ELSE SubSeq(data, 1, IF Len(data) < 2 THEN Len(data) ELSE 2)

\* the speed of a sample at a height, as the callback of every forms it
WindAtHeight(data, h) ==
  IF h = 10 THEN AtScale(data.windSpeed)
  ELSE estimateWindAtHeight(data.windSpeed, 10, h)

\* variant: only the first of the relevant samples is looked at
IsSafeAtHeightFirstOnly(relevant, h) ==
  Len(relevant) = 0
    \/ isSafeForDrones(WindAtHeight(relevant[1], h), AtScale(relevant[1].windGust))

\* relevantData.every(...) for one height
IsSafeAtHeight(relevant, h) ==
  \A i \in DOMAIN relevant :
    isSafeForDrones(WindAtHeight(relevant[i], h), AtScale(relevant[i].windGust))

\* ANALYSIS_HEIGHTS.map(...)
SafetyByHeight(relevant) ==
  [k \in DOMAIN ANALYSIS_HEIGHTS |->
     [height |-> ANALYSIS_HEIGHTS[k], isSafe |-> IsSafeAtHeight(relevant, ANALYSIS_HEIGHTS[k])]]

\* variant: the verdict of the first height, 10 m, is taken for the overall one
IsOverallSafeFirstHeight(byHeight) == byHeight[1].isSafe

\* safetyByHeight.every(s => s.isSafe)
IsOverallSafe(byHeight) == \A k \in DOMAIN byHeight : byHeight[k].isSafe

\* the series the indicator is rendered with: hourly samples in the order of
\* time, around the clock of the render
SafetyTimes == { T(1, 9, 0), T(1, 10, 0), T(1, 11, 0), T(1, 12, 0), T(1, 13, 0) }

SafetyReadings == { <<50, Undefined>>, <<90, 100>>, <<110, 120>>, <<50, 130>> }

SafetySamples == { W(ts, sg[1], sg[2]) : ts \in SafetyTimes, sg \in SafetyReadings }

SafetySeries ==
  { q \in SeqsUpTo(SafetySamples, MaxSafetyLen) :
      \A i \in 1..(Len(q) - 1) : GetTime(q[i].timestamp) < GetTime(q[i + 1].timestamp) }

InitSafety ==
  /\ RestAtRest
  /\ CanvasUnmounted
  /\ CalcUncalled
  /\ FieldUnsampled
  /\ sWindData \in SafetySeries
  /\ sNow = T(1, 10, 0)
  /\ relevantData = <<>>
  /\ safetyByHeight = <<>>
  /\ isOverallSafe = FALSE
  /\ sRendered = FALSE

\* the component function runs
RenderSafetyIndicator ==
  /\ ~sRendered
  /\ sRendered' = TRUE
  /\ relevantData' = RelevantData(sWindData, sNow)
  /\ safetyByHeight' = SafetyByHeight(relevantData')
  /\ isOverallSafe' = IsOverallSafe(safetyByHeight')
  /\ UNCHANGED <<sWindData, sNow, pageVars, hookVars, reconsStarted, pureVars, canvasVars,
                 calcVars, fieldVars>>

NextSafety == RenderSafetyIndicator

SpecSafety == InitSafety /\ [][NextSafety]_vars

----------------------------------------------------------------------------
\* utils/windCalculations.ts called on its own

\* speeds and gusts at, just below and just above the limits, in the units of a
\* speed at a height
CalcWindSpeeds ==
  {0, MAX_SAFE_WIND * FactorScale - 1, MAX_SAFE_WIND * FactorScale,
   MAX_SAFE_WIND * FactorScale + 1, 2 * MAX_SAFE_WIND * FactorScale}
CalcGustSpeeds ==
  {Undefined, 0, MAX_SAFE_GUST * FactorScale - 1, MAX_SAFE_GUST * FactorScale,
   MAX_SAFE_GUST * FactorScale + 1, 2 * MAX_SAFE_GUST * FactorScale}
CalcReferenceSpeeds == {0, 50}
CalcReferenceHeights == {0 - 10, 0, 10}
CalcTargetHeights == {0 - 10, 0, 10, 120}

InitCalc ==
  /\ RestAtRest
  /\ CanvasUnmounted
  /\ SafetyUnrendered
  /\ FieldUnsampled
  /\ qWindSpeed \in CalcWindSpeeds
  /\ qGustSpeed \in CalcGustSpeeds
  /\ qSafe = FALSE
  /\ qJudged = FALSE
  /\ qReferenceSpeed \in CalcReferenceSpeeds
  /\ qReferenceHeight \in CalcReferenceHeights
  /\ qTargetHeight \in CalcTargetHeights
  /\ qEstimate = Returned(0)
  /\ qEstimated = FALSE

otherThanCalc == <<pageVars, hookVars, reconsStarted, pureVars, canvasVars, safetyVars,
                   fieldVars>>

CallIsSafeForDrones ==
  /\ ~qJudged
  /\ qSafe' = isSafeForDrones(qWindSpeed, qGustSpeed)
  /\ qJudged' = TRUE
  /\ UNCHANGED <<qWindSpeed, qGustSpeed, qReferenceSpeed, qReferenceHeight, qTargetHeight,
                 qEstimate, qEstimated, otherThanCalc>>

CallEstimateWindAtHeight ==
  /\ ~qEstimated
  /\ qEstimate' = Returned(estimateWindAtHeight(qReferenceSpeed, qReferenceHeight,
                                                qTargetHeight))
  /\ qEstimated' = TRUE
  /\ UNCHANGED <<qWindSpeed, qGustSpeed, qSafe, qJudged, qReferenceSpeed, qReferenceHeight,
                 qTargetHeight, otherThanCalc>>

NextCalc == CallIsSafeForDrones \/ CallEstimateWindAtHeight

SpecCalc == InitCalc /\ [][NextCalc]_vars

----------------------------------------------------------------------------
\* sampleVector of WindParticlesCanvas called on its own

\* the places of the samples of a field, in the order of the array; a field has
\* the first MaxFieldLen of them at most
FieldPlaces ==
  << [lng |-> 1, lat |-> 0], [lng |-> 0, lat |-> 1], [lng |-> 2, lat |-> 2],
     [lng |-> 3, lat |-> 1], [lng |-> 4, lat |-> 1], [lng |-> 0, lat |-> 4],
     [lng |-> 5, lat |-> 0], [lng |-> 5, lat |-> 3], [lng |-> 1, lat |-> 5],
     [lng |-> 6, lat |-> 6] >>
MaxFieldLen == 5

\* windSpeed (tenths of a m/s) and windDirection of a sample
FieldReadings ==
  { [windSpeed |-> 10, windDirection |-> 0], [windSpeed |-> 10, windDirection |-> 180],
    [windSpeed |-> 20, windDirection |-> 90] }

Fields ==
  UNION { { [i \in 1 .. n |-> P(FieldPlaces[i].lng, FieldPlaces[i].lat,
                                r[i].windSpeed, r[i].windDirection)] :
              r \in [1 .. n -> FieldReadings] } : n \in 0 .. MaxFieldLen }

FieldQueries == { [lng |-> 0, lat |-> 0], [lng |-> 2, lat |-> 1] }
FieldHeights == {10, 20}

InitField ==
  /\ RestAtRest
  /\ CanvasUnmounted
  /\ SafetyUnrendered
  /\ CalcUncalled
  /\ vPoints \in Fields
  /\ vHeight \in FieldHeights
  /\ \E q \in FieldQueries : vLng = q.lng /\ vLat = q.lat
  /\ vResult = [east |-> 0, north |-> 0, speed |-> 0]
  /\ vChanged = <<>>
  /\ vResultChanged = [east |-> 0, north |-> 0, speed |-> 0]
  /\ vStage = "input"

otherThanField == <<pageVars, hookVars, reconsStarted, pureVars, canvasVars, safetyVars,
                    calcVars>>

SampleField ==
  /\ vStage = "input"
  /\ vResult' = sampleVector(vPoints, vHeight, vLng, vLat)
  /\ vStage' = "sampled"
  /\ UNCHANGED <<vPoints, vHeight, vLng, vLat, vChanged, vResultChanged, otherThanField>>

\* the same call for the field with another reading at sample i
SampleChangedField(i, reading) ==
  /\ vStage = "sampled"
  /\ i \in DOMAIN vPoints
  /\ vChanged' = [vPoints EXCEPT ![i] = P(vPoints[i].longitude, vPoints[i].latitude,
                                          reading.windSpeed, reading.windDirection)]
  /\ vChanged' # vPoints
  /\ vResultChanged' = sampleVector(vChanged', vHeight, vLng, vLat)
  /\ vStage' = "resampled"
  /\ UNCHANGED <<vPoints, vHeight, vLng, vLat, vResult, otherThanField>>

NextField ==
  \/ SampleField
  \/ \E i \in 1 .. MaxFieldLen : \E reading \in FieldReadings : SampleChangedField(i, reading)

SpecField == InitField /\ [][NextField]_vars

----------------------------------------------------------------------------
\* Vocabulary of the claims

\* two instants lie in the same year-month-day-hour bucket
SameHour(a, b) ==
  a.year = b.year /\ a.month = b.month /\ a.date = b.date /\ a.hours = b.hours

\* the observations with a non-null gust in the bucket of sample d
Hits(d, observations) ==
  { j \in DOMAIN observations :
      observations[j].windGust # Null /\ SameHour(observations[j].timestamp, d.timestamp) }

\* e is d but for the gust
SameButGust(e, d) ==
  /\ e.timestamp = d.timestamp
  /\ e.windSpeed = d.windSpeed
  /\ e.windDirection = d.windDirection
  /\ e.isDaytime = d.isDaytime

\* g is 1.4 times the speed (both in tenths)
IsEstimateOf(g, windSpeed) == g * 10 = windSpeed * 14

\* series is forecast with every absent gust set to speed * 1.4, every present
\* gust kept, and nothing else changed
EstimatedFrom(series, forecast) ==
  /\ Len(series) = Len(forecast)
  /\ \A i \in DOMAIN forecast :
       /\ SameButGust(series[i], forecast[i])
       /\ series[i].windGust # Undefined
       /\ forecast[i].windGust = Undefined
            => IsEstimateOf(series[i].windGust, forecast[i].windSpeed)
       /\ forecast[i].windGust # Undefined
            => series[i].windGust = forecast[i].windGust

FallbackCauses == {"noStations", "noObservations", "requestFailed"}

\* the outcome of the cascade a finished run took
Outcome(d) ==
  IF d.cause = "merged"
  THEN LET merged == mergeWindDataWithObservations(d.forecastData, d.observations)
       IN IF d.useEstimation /\ \E i \in DOMAIN merged : merged[i].windGust = Undefined
          THEN "MergedWithEstimationFill" ELSE "Merged"
  ELSE IF d.useEstimation THEN "FullyEstimated" ELSE "Unenhanced"

Completed == hookStep.kind = "completed"

----------------------------------------------------------------------------
\* C1: the result of a superseded reconciliation is discarded on arrival: a
\* step of a run of fetchStationData that a later run of the effect has
\* superseded writes neither enhancedData nor nearestStation and sets no error.
C1_StaleDiscarded ==
  [][(hookStep'.kind \in {"stations", "completed"} /\ hookStep'.stale)
       => /\ enhancedData' = enhancedData
          /\ nearestStation' = nearestStation
          /\ stError' = stError]_vars

\* C2 as claimed: once a reconciled series exists, enhancedData changes only
\* in the step that completes a reconciliation; until then readers see the
\* previous reconciled series.
C2_OnlyReplacedAtCompletion ==
  [][(Completed /\ hookStep'.kind # "completed") => enhancedData' = enhancedData]_vars

\* C2 as amended: enhancedData is replaced whole and only in two kinds of
\* step: a run of the effect replaces it by the forecast input as it is (so
\* readers see the raw forecast, not the previous reconciled series, while a
\* reconciliation is in flight), and the completion of a reconciliation
\* replaces it by that run's result; no other step changes it.
C2_ReplacedAtStartAndCompletion ==
  [][/\ hookStep'.kind = "effect" => enhancedData' = windData'
     /\ enhancedData' # enhancedData => hookStep'.kind \in {"effect", "completed"}]_vars

\* a run of the effect has just replaced a reconciled series (the gusts of the
\* station are gone) by a raw forecast with a reconciliation in flight
C2_Witness ==
  /\ hookStep.kind = "effect"
  /\ nearestStation # NoStation
  /\ runs # EmptyBag
  /\ enhancedData = windData
  /\ \E i \in DOMAIN enhancedData : enhancedData[i].windGust = Undefined

\* C3: at most one forecast fetch and at most one reconciliation are started
\* for one (location, refresh cycle) pair.
C3_OncePerCycle == fetchesStarted <= 1 /\ reconsStarted <= 1

\* C4: a run that finishes (with gust estimation enabled, as the cascade
\* supposes) ends in one of the three outcomes, and once the latest cycle has
\* finished, the series it produced stays as it is until a run of the effect
\* starts the next cycle.
C4_TerminalOutcome ==
  [][/\ (hookStep'.kind = "completed" /\ lastDone'.useEstimation)
          => Outcome(lastDone') \in {"Merged", "MergedWithEstimationFill", "FullyEstimated"}
     /\ (Completed /\ ~hookStep.stale /\ hookStep'.kind # "effect")
          => enhancedData' = enhancedData]_vars

\* C5 as claimed: a run that finds no station, gets no observation or whose
\* request fails leaves estimateWindGusts(forecast) as the series.
C5_FallbackAlwaysEstimates ==
  (Completed /\ lastDone.cause \in FallbackCauses)
    => EstimatedFrom(enhancedData, lastDone.forecastData)

\* C5 as amended: such a run writes estimateWindGusts(forecast) when gust
\* estimation is enabled (useEstimation, the default), and writes no series
\* at all when it is disabled.
C5_FallbackEstimatesWhenEnabled ==
  [][(hookStep'.kind = "completed" /\ lastDone'.cause \in FallbackCauses)
       => IF lastDone'.useEstimation
          THEN EstimatedFrom(enhancedData', lastDone'.forecastData)
          ELSE enhancedData' = enhancedData]_vars

\* a failed request has been answered by the estimate of a forecast that had
\* no gust at all
C5_Witness ==
  /\ Completed
  /\ lastDone.cause = "requestFailed"
  /\ lastDone.useEstimation
  /\ lastDone.forecastData # <<>>
  /\ \A i \in DOMAIN lastDone.forecastData : lastDone.forecastData[i].windGust = Undefined
  /\ \E i \in DOMAIN enhancedData :
       enhancedData[i].windSpeed > 0 /\ enhancedData[i].windGust > enhancedData[i].windSpeed

\* C6: a run that got observations leaves the merged series: a sample whose
\* hour has an observed gust carries an observed gust of that hour, and any
\* other sample is the forecast sample, with gust = speed * 1.4 only where it
\* had none and estimation is enabled.
C6_MergedThenFilled ==
  (Completed /\ lastDone.cause = "merged")
    => /\ Len(enhancedData) = Len(lastDone.forecastData)
       /\ \A i \in DOMAIN lastDone.forecastData :
            LET f == lastDone.forecastData[i]
                e == enhancedData[i]
                hits == Hits(f, lastDone.observations)
            IN /\ SameButGust(e, f)
               /\ hits # {} => e.windGust \in { lastDone.observations[j].windGust : j \in hits }
               /\ hits = {} =>
                    IF lastDone.useEstimation /\ f.windGust = Undefined
                    THEN IsEstimateOf(e.windGust, f.windSpeed)
                    ELSE e.windGust = f.windGust

\* a merged series with an observed gust that is not the estimate, next to an
\* unmatched sample that got the estimate
C6_Witness ==
  /\ Completed
  /\ lastDone.cause = "merged"
  /\ \E i \in DOMAIN lastDone.forecastData :
       /\ Hits(lastDone.forecastData[i], lastDone.observations) # {}
       /\ ~IsEstimateOf(enhancedData[i].windGust, enhancedData[i].windSpeed)
  /\ \E i \in DOMAIN lastDone.forecastData :
       /\ Hits(lastDone.forecastData[i], lastDone.observations) = {}
       /\ lastDone.forecastData[i].windGust = Undefined
       /\ IsEstimateOf(enhancedData[i].windGust, enhancedData[i].windSpeed)

\* C7: a run that falls back to estimation leaves the error state null and
\* emits the informational "Using estimated gust data" notification.
C7_DegradedIsInformational ==
  (Completed /\ Outcome(lastDone) \in {"FullyEstimated", "MergedWithEstimationFill"})
    => stError = NoError /\ lastDone.toast = EstimatedToast

\* C8: the merge overwrites the gust of exactly the samples whose hour holds
\* an observation with a non-null gust, by an observed gust of that hour, and
\* returns every other sample as it was.
C8_MergeOverwritesMatched ==
  pStage # "input"
    => /\ Len(pMerged) = Len(pForecast)
       /\ \A i \in DOMAIN pForecast :
            LET hits == Hits(pForecast[i], pObservations)
            IN IF hits # {}
               THEN /\ SameButGust(pMerged[i], pForecast[i])
                    /\ pMerged[i].windGust \in { pObservations[j].windGust : j \in hits }
               ELSE pMerged[i] = pForecast[i]

\* one sample overwritten, and another with a gust of its own kept although
\* an observation with a null gust lies in its hour
C8_Witness ==
  /\ pStage = "merged"
  /\ \E i \in DOMAIN pForecast : pMerged[i].windGust # pForecast[i].windGust
  /\ \E i \in DOMAIN pForecast : \E j \in DOMAIN pObservations :
       /\ pObservations[j].windGust = Null
       /\ SameHour(pObservations[j].timestamp, pForecast[i].timestamp)
       /\ pForecast[i].windGust # Undefined
       /\ pMerged[i] = pForecast[i]

\* C9: merging the merged series with the same observations changes nothing.
C9_MergeIdempotent ==
  pStage \in {"mergedTwice", "estimated"} => pMergedTwice = pMerged

\* the second merge ran on a series the first merge had changed
C9_Witness ==
  /\ pStage = "mergedTwice"
  /\ pMerged # pForecast
  /\ \E i \in DOMAIN pForecast :
       pForecast[i].windGust # Undefined /\ pMerged[i].windGust # pForecast[i].windGust

\* C10: the estimator keeps every gust that is present, fills every absent
\* one and changes no other field.
C10_EstimateOnlyFills ==
  pStage = "estimated"
    => /\ Len(pEstimated) = Len(pForecast)
       /\ \A i \in DOMAIN pForecast :
            /\ SameButGust(pEstimated[i], pForecast[i])
            /\ pForecast[i].windGust # Undefined
                 => pEstimated[i].windGust = pForecast[i].windGust
            /\ pForecast[i].windGust = Undefined
                 => pEstimated[i].windGust # Undefined

\* a gust of 0 below the speed was kept and an absent gust was filled
C10_Witness ==
  /\ pStage = "estimated"
  /\ \E i \in DOMAIN pForecast :
       /\ pForecast[i].windGust = 0
       /\ pForecast[i].windSpeed > 0
       /\ pEstimated[i].windGust = 0
  /\ \E i \in DOMAIN pForecast :
       pForecast[i].windGust = Undefined /\ pEstimated[i].windGust > 0

\* no two samples of the series carry the same timestamp
UniqueTimestamps(series) ==
  \A i, j \in DOMAIN series : series[i].timestamp = series[j].timestamp => i = j

\* series has the samples of forecast, one for one and in the same order
SameSamplesInOrder(series, forecast) ==
  /\ Len(series) = Len(forecast)
  /\ \A i \in DOMAIN forecast : SameButGust(series[i], forecast[i])

----------------------------------------------------------------------------
\* Vocabulary of the claims about the particles

Inside(pt, b) == ~Outside(pt, b)

Ticked == canvasStep.kind = "tick"

Seeded == canvasStep.kind \in {"start", "field", "resize"}

\* a particle as seedParticles makes it for the bounds b
Fresh(pt, b) ==
  /\ pt.lng >= b.west /\ pt.lng <= b.east
  /\ pt.lat >= b.south /\ pt.lat <= b.north
  /\ pt.age >= 0 /\ pt.age < SeedAgeLimit

\* C12 as claimed: whatever seeds, ticks, map moves, zooms and resizes came
\* before, every particle lies within the current viewport bounds once the
\* simulator has seeded or ticked.
C12_AlwaysInsideBounds ==
  (Seeded \/ Ticked) => \A i \in DOMAIN particles : Inside(particles[i], bounds)

\* C12 as amended: right after a seeding every particle lies within the
\* bounds, and right after a tick the only particles outside the bounds are
\* those the tick itself advected across an edge from a place inside; every
\* particle that was outside when the tick began is inside again.
C12_InsideButForAdvection ==
  /\ Seeded => \A i \in DOMAIN particles : Inside(particles[i], bounds)
  /\ Ticked => \A i \in DOMAIN particles :
                 Outside(particles[i], bounds)
                   => /\ i \notin canvasStep.exited
                      /\ i \notin canvasStep.expired
                      /\ particles[i].age >= 1

\* a tick has just advected a particle across an edge of the viewport
C12_Witness ==
  /\ Ticked
  /\ \E i \in DOMAIN particles :
       Outside(particles[i], bounds) /\ particles[i].age >= 1

\* C13: a particle that is outside the bounds when a tick begins is placed
\* inside the bounds by that tick with age 0, and is not advected by it.
C13_ExitedRespawned ==
  [][canvasStep'.kind = "tick"
       => \A i \in DOMAIN particles :
            Outside(particles[i], bounds')
              => /\ i \in DOMAIN particles'
                 /\ Inside(particles'[i], bounds')
                 /\ particles'[i].age = 0]_vars

\* a tick has just respawned a particle that a move of the map had left
\* outside the bounds
C13_Witness ==
  /\ Ticked
  /\ canvasStep.exited # {}
  /\ \A i \in canvasStep.exited : Inside(particles[i], bounds) /\ particles[i].age = 0

\* frames of a live step closure are requested on a mounted canvas
Ticking == canvasMounted /\ \E f \in BagToSet(frames) : f.closure.enabled

\* the tick just made respawned particle i
Respawned(i) == Ticked /\ i \in (canvasStep.exited \cup canvasStep.expired)

\* C14: a particle whose age passes the maximum lifetime in a tick is
\* respawned inside the bounds with age 0 in that same tick, and while the
\* simulator keeps ticking every particle is respawned again and again.
C14_RecycledForever ==
  /\ [][canvasStep'.kind = "tick"
          => \A i \in DOMAIN particles :
               (Inside(particles[i], bounds') /\ particles[i].age + 1 > MaxAge)
                 => /\ Inside(particles'[i], bounds')
                    /\ particles'[i].age = 0]_vars
  /\ \A i \in 1..BatchSize : (<>[]Ticking) => []<>Respawned(i)

\* a tick has just respawned a particle that had reached the maximum lifetime
C14_Witness ==
  /\ Ticked
  /\ canvasStep.expired # {}
  /\ \A i \in canvasStep.expired : Inside(particles[i], bounds) /\ particles[i].age = 0

\* C15: at any time at most one next tick is pending.
C15_OnePendingTick == BagCardinality(frames) <= 1

\* C16: a resize and a change of points or height seed again in the same
\* step: the population is replaced by BatchSize particles as seedParticles
\* makes them for the current bounds, whatever the particles were before.
C16_ReseedReplacesAll ==
  [][/\ (map' = TheMap /\ canvasMounted' /\ <<points', height'>> # <<points, height>>)
          => canvasStep'.kind \in {"start", "field"}
     /\ canvasStep'.kind \in {"field", "resize"}
          => /\ Len(particles') = BatchSize
             /\ \A i \in DOMAIN particles' : Fresh(particles'[i], bounds')]_vars

\* a resize that changed the bounds has just replaced the population
C16_Witness ==
  /\ canvasStep.kind = "resize"
  /\ bounds # InitialView.bounds
  /\ canvasEvents = MaxCanvasEvents
  /\ Len(particles) = BatchSize
  /\ \A i \in DOMAIN particles : Fresh(particles[i], bounds)

\* C17: the population is empty or of the batch size at any time, and a
\* tick leaves the number of particles as it is.
C17_FixedPopulation ==
  [][/\ Len(particles') \in {0, BatchSize}
     /\ canvasStep'.kind = "tick" => Len(particles') = Len(particles)]_vars

\* a tick that respawned a particle has left the population at the batch size
C17_Witness ==
  /\ Ticked
  /\ canvasStep.exited \cup canvasStep.expired # {}
  /\ Len(particles) = BatchSize
  /\ canvasEvents >= 1

----------------------------------------------------------------------------
\* Vocabulary of the claims about the safety indicator

\* the sample passes the thresholds at height k of ANALYSIS_HEIGHTS: 11.0 m/s
\* for the speed at the height, 12.0 m/s for the gust when there is one
PassesAt(d, k) ==
  /\ d.windSpeed * PowerLawFactor(ANALYSIS_HEIGHTS[k] \div 10) <= 110 * FactorScale
  /\ d.windGust = Undefined \/ d.windGust <= 120

\* the places of the series whose time lies in [now, now + 2 hours]
InWindow ==
  { i \in DOMAIN sWindData :
      /\ GetTime(sWindData[i].timestamp) >= GetTime(sNow)
      /\ GetTime(sWindData[i].timestamp) <= GetTime(sNow) + 120 }

\* C18: the overall verdict is false if any height is unsafe and true only
\* if every height is safe.
C18_OverallIsConjunction ==
  sRendered
    => /\ (\E k \in DOMAIN safetyByHeight : ~safetyByHeight[k].isSafe) => ~isOverallSafe
       /\ isOverallSafe <=> (\A k \in DOMAIN safetyByHeight : safetyByHeight[k].isSafe)

\* the lowest height is safe, a higher one is not, and the overall verdict
\* is unsafe
C18_Witness ==
  /\ sRendered
  /\ safetyByHeight[1].isSafe
  /\ ~safetyByHeight[Len(safetyByHeight)].isSafe
  /\ ~isOverallSafe

\* C19: a height is safe exactly when every selected sample passes the
\* thresholds at that height; one failing sample, wherever it lies in the
\* selection, makes the height unsafe.
C19_SafeOnlyIfEverySampleSafe ==
  sRendered
    => \A k \in DOMAIN safetyByHeight :
         safetyByHeight[k].isSafe <=> (\A i \in DOMAIN relevantData : PassesAt(relevantData[i], k))

\* the first selected sample is safe at every height and a later one is not
\* safe at 10 m, and no height is classified safe
C19_Witness ==
  /\ sRendered
  /\ Len(relevantData) >= 2
  /\ \A k \in DOMAIN safetyByHeight : PassesAt(relevantData[1], k)
  /\ ~PassesAt(relevantData[Len(relevantData)], 1)
  /\ \A k \in DOMAIN safetyByHeight : ~safetyByHeight[k].isSafe

\* C20: the samples evaluated are exactly those of the window [now, now + 2
\* hours], in their order; if and only if there is none, they are the first
\* two samples of the series, or all of it when it has fewer than two.
C20_WindowOrFirstTwo ==
  sRendered
    => IF InWindow # {}
       THEN /\ Len(relevantData) = Cardinality(InWindow)
            /\ { relevantData[i] : i \in DOMAIN relevantData }
                 = { sWindData[i] : i \in InWindow }
            /\ \A i \in 1..(Len(relevantData) - 1) :
                 GetTime(relevantData[i].timestamp) < GetTime(relevantData[i + 1].timestamp)
       ELSE /\ Len(relevantData) = (IF Len(sWindData) < 2 THEN Len(sWindData) ELSE 2)
            /\ \A i \in DOMAIN relevantData : relevantData[i] = sWindData[i]

\* a series with a sample before the window, one at its start and one at its
\* end: the two of the window are evaluated
C20_Witness ==
  /\ sRendered
  /\ Len(sWindData) = 3
  /\ Len(relevantData) = 2
  /\ GetTime(relevantData[1].timestamp) = GetTime(sNow)
  /\ GetTime(relevantData[2].timestamp) = GetTime(sNow) + 120


\* C21: isSafeForDrones returns true exactly when the speed is at most 11.0 m/s
\* and the gust is absent or at most 12.0 m/s: a speed above 11.0 is unsafe
\* whatever the gust, and the limits 11.0 and 12.0 themselves are safe
C21_SafeExactlyWithinLimits ==
  qJudged =>
    (qSafe <=> /\ qWindSpeed <= MAX_SAFE_WIND * FactorScale
               /\ (qGustSpeed = Undefined \/ qGustSpeed <= MAX_SAFE_GUST * FactorScale))

\* a speed of 11.0 with a gust of 12.0 has been judged, and judged safe
C21_Witness ==
  /\ qJudged
  /\ qWindSpeed = MAX_SAFE_WIND * FactorScale
  /\ qGustSpeed = MAX_SAFE_GUST * FactorScale
  /\ qSafe

\* C23: estimateWindAtHeight fails with InvalidInput whenever referenceHeight or
\* targetHeight is not positive, and returns a speed only when both are positive
C23_InvalidInputUnlessPositive ==
  qEstimated =>
    (qEstimate.threw <=> (qReferenceHeight <= 0 \/ qTargetHeight <= 0))

\* C22: a render of SafetyIndicator with an empty series yields no verdict: an
\* empty series is never classified as safe
C22_EmptySeriesNeverSafe ==
  (sRendered /\ sWindData = <<>>) => ~isOverallSafe

\* a component or speed of a sampled vector in thousandths of a tenth of a m/s
Coarse(x) == x \div (FactorScale \div 10)
Abs(x) == IF x < 0 THEN 0 - x ELSE x
\* hypot of two whole numbers, rounded down
Hypot(x, y) == CHOOSE r \in 0 .. (Abs(x) + Abs(y)) :
                 r * r <= x * x + y * y /\ x * x + y * y < (r + 1) * (r + 1)
\* the samples of pts that are among the 4 nearest to the place, by their
\* planar distance and, at equal distance, by their order in the array
Distance2(p, lng, lat) ==
  (p.latitude - lat) * (p.latitude - lat) + (p.longitude - lng) * (p.longitude - lng)
Nearest(pts, lng, lat) ==
  { i \in DOMAIN pts :
      Cardinality({ j \in DOMAIN pts :
                      \/ Distance2(pts[j], lng, lat) < Distance2(pts[i], lng, lat)
                      \/ /\ Distance2(pts[j], lng, lat) = Distance2(pts[i], lng, lat)
                         /\ j < i }) < 4 }
OneDirection(pts, S) == \A i, j \in S : pts[i].windDirection = pts[j].windDirection

\* C24 as stated: the speed of every sampled vector is the hypot of its own
\* east and north components, within the tolerance of the rounding
C24_SpeedIsHypot ==
  vStage # "input" =>
    Abs(Coarse(vResult.speed) - Hypot(Coarse(vResult.east), Coarse(vResult.north))) <= 1

\* C24 as the code has it: the speed of a sampled vector is the hypot of its
\* components when the samples used all have one direction, and is never less
\* than that hypot; it is more when directions differ
C24_SpeedAtLeastHypot ==
  vStage # "input" =>
    LET s == Coarse(vResult.speed)
        r == Hypot(Coarse(vResult.east), Coarse(vResult.north))
    IN /\ r <= s + 1
       /\ OneDirection(vPoints, Nearest(vPoints, vLng, vLat)) => Abs(s - r) <= 1

\* a field of two samples as near as each other, of one speed and of opposite
\* directions, has been sampled above the reference height: the components
\* cancel and the speed is the speed of the two
C24_Witness ==
  /\ vStage = "sampled"
  /\ Len(vPoints) = 2
  /\ vPoints[1].windDirection = 0 /\ vPoints[2].windDirection = 180
  /\ vLng = 0 /\ vLat = 0
  /\ vHeight = 20
  /\ vResult.east = 0 /\ vResult.north = 0
  /\ vResult.speed = estimateWindAtHeight(10, ReferenceHeight, 20)

\* C25: sampleVector uses the 4 samples nearest by planar distance only:
\* another speed or direction at a sample that is not among them leaves the
\* result as it was
C25_FartherSamplesIgnored ==
  vStage = "resampled" =>
    ((\A i \in DOMAIN vPoints :
        vChanged[i] # vPoints[i] => i \notin Nearest(vPoints, vLng, vLat))
       => vResultChanged = vResult)

\* a field of 5 samples has been sampled again with another reading at the one
\* sample that is not among the 4 nearest, and a vector that is not zero came out
C25_Witness ==
  /\ vStage = "resampled"
  /\ Len(vPoints) = 5
  /\ \E i \in DOMAIN vPoints :
       /\ vChanged[i] # vPoints[i]
       /\ i \notin Nearest(vPoints, vLng, vLat)
  /\ vResultChanged = vResult
  /\ vResult.speed > 0

C27_LoadingWhileInFlight ==
  BagCardinality(runs) > 0 => stLoading

\* C28: after the cleanup of the effect of [map, enabled] no frame requested
\* before it executes a tick: a frame that ticks runs the step closure of the
\* effect now in place
C28_NoTickAfterCleanup ==
  [][\A f \in BagToSet(frames) :
       (FrameFires(f) /\ canvasStep'.kind = "tick") => f.closure = listeners]_vars

\* C29: the age of every particle is a whole number from 0 to 100 whenever no
\* tick is under way; seeding gives an age from 0 to 89, and a tick sets the
\* age to 0 or adds exactly 1 to it
C29_AgeWithinLifetime ==
  /\ [](\A i \in DOMAIN particles :
          particles[i].age \in 0 .. MaxAge)
  /\ [](Seeded => \A i \in DOMAIN particles :
                    particles[i].age \in 0 .. (SeedAgeLimit - 1))
  /\ [][canvasStep'.kind = "tick"
          => /\ DOMAIN particles' = DOMAIN particles
             /\ \A i \in DOMAIN particles :
                  particles'[i].age \in {0, particles[i].age + 1}]_vars

\* a tick has brought a particle to the age of 100 and left it in place
C29_Witness ==
  /\ Ticked
  /\ \E i \in DOMAIN particles : particles[i].age = MaxAge

\* the last place of a set of places of a sequence
LastOf(S) == CHOOSE j \in S : \A k \in S : k <= j

\* C30: when several observations with a non-null gust lie in the hour of a
\* forecast sample, the merged sample has the gust of the one that comes last
\* in the order of the input, whatever the timestamps within the hour
C30_LastObservationOfHourWins ==
  pStage # "input"
    => \A i \in DOMAIN pForecast :
         LET hits == Hits(pForecast[i], pObservations)
         IN hits # {}
              => pMerged[i].windGust = pObservations[LastOf(hits)].windGust

\* two observations of one hour with different gusts, the later one first in
\* the input, have been merged into a sample of that hour, which has the gust
\* of the earlier observation
C30_Witness ==
  /\ pStage = "merged"
  /\ Len(pObservations) = 2
  /\ pObservations[1].windGust # Null /\ pObservations[2].windGust # Null
  /\ pObservations[1].windGust # pObservations[2].windGust
  /\ SameHour(pObservations[1].timestamp, pObservations[2].timestamp)
  /\ pObservations[1].timestamp.minutes > pObservations[2].timestamp.minutes
  /\ \E i \in DOMAIN pForecast :
       /\ SameHour(pForecast[i].timestamp, pObservations[2].timestamp)
       /\ pMerged[i].windGust = pObservations[2].windGust

====
